---- MODULE Spec2Model ----
(***************************************************************************)
(* A model of src/free_mcp_hasan.js: the MCP tool-call handler that routes *)
(* generate_text, list_models and chat_conversation to one of three        *)
(* OpenAI-compatible clients.                                              *)
(*                                                                         *)
(* JavaScript values are records tagged by their type (field t), so that   *)
(* truthiness, `||` and `?.` are computed as the language computes them.   *)
(* A text is the sequence of the fragments its template literal is built   *)
(* from; the string is their concatenation.  Temperatures are in tenths    *)
(* (7 is 0.7, 20 is 2.0), the model having no fractions.                   *)
(***************************************************************************)
EXTENDS Integers, Sequences, FiniteSets, TLC

\* ------------------------------------------------------------ JS values

Undefined == [t |-> "undefined"]
Null == [t |-> "null"]
Str(s) == [t |-> "string", v |-> s]
Num(n) == [t |-> "number", v |-> n]
Arr(q) == [t |-> "array", v |-> q]

\* ToBoolean of the language.
Truthy(v) ==
    CASE v.t = "undefined" -> FALSE
      [] v.t = "null" -> FALSE
      [] v.t = "string" -> v.v # ""
      [] v.t = "number" -> v.v # 0
      [] OTHER -> TRUE

\* a || b
Or(a, b) == IF Truthy(a) THEN a ELSE b

\* v is undefined or null: a property read of it throws, `?.` gives undefined.
Nullish(v) == v.t \in {"undefined", "null"}

TypeError(msg) == [response |-> Undefined, message |-> Str(msg)]

\* ------------------------------------------------------------ bounds

\* The longest messages array a chat_conversation request carries.
MaxMessages == 2

\* ------------------------------------------------------------ registry

ProviderIds == {"huggingface", "openai", "anthropic"}

EnvVars == {"HF_TOKEN", "OPENAI_API_KEY", "ANTHROPIC_API_KEY"}

\* new OpenAI({baseURL, apiKey}): the handle, named by its endpoint and credential.
OpenAI(baseURL, apiKey) == [t |-> "object", baseURL |-> baseURL, apiKey |-> apiKey]

\* The clients object after the three `if (process.env.X)` blocks; env is the set
\* of variables holding a non-empty value.
BuildClients(env) ==
    [huggingface |->
        IF "HF_TOKEN" \in env
        THEN OpenAI("https://api-inference.huggingface.co/v1", "HF_TOKEN")
        ELSE Undefined,
     openai |->
        IF "OPENAI_API_KEY" \in env
        THEN OpenAI("https://api.openai.com/v1", "OPENAI_API_KEY")
        ELSE Undefined,
     anthropic |->
        IF "ANTHROPIC_API_KEY" \in env
        THEN OpenAI("https://api.anthropic.com/v1", "ANTHROPIC_API_KEY")
        ELSE Undefined]

MODELS ==
    [huggingface |-> <<"meta-llama/Llama-3.2-3B-Instruct",
                       "microsoft/DialoGPT-medium",
                       "facebook/blenderbot-400M-distill",
                       "Qwen/Qwen2.5-Coder-32B-Instruct">>,
     openai |-> <<"gpt-4o", "gpt-4o-mini", "gpt-3.5-turbo", "o1-preview", "o1-mini">>,
     anthropic |-> <<"claude-3-5-sonnet-20241022",
                     "claude-3-5-haiku-20241022",
                     "claude-3-opus-20240229">>]

getAvailableProvidersOpenAIFirst(c) ==
    (IF Truthy(c.openai) THEN <<"openai">> ELSE <<>>)
        \o (IF Truthy(c.huggingface) THEN <<"huggingface">> ELSE <<>>)
        \o (IF Truthy(c.anthropic) THEN <<"anthropic">> ELSE <<>>)

getAvailableProviders(c) ==
    (IF Truthy(c.huggingface) THEN <<"huggingface">> ELSE <<>>)
        \o (IF Truthy(c.openai) THEN <<"openai">> ELSE <<>>)
        \o (IF Truthy(c.anthropic) THEN <<"anthropic">> ELSE <<>>)

\* defaults[provider]: undefined for a key the object lacks.
getDefaultModel(provider) ==
    CASE provider = "huggingface" -> Str("meta-llama/Llama-3.2-3B-Instruct")
      [] provider = "openai" -> Str("gpt-4o-mini")
      [] provider = "anthropic" -> Str("claude-3-5-haiku-20241022")
      [] OTHER -> Undefined

\* String.prototype.toUpperCase on the provider ids.
toUpperCase(s) ==
    CASE s = "huggingface" -> "HUGGINGFACE"
      [] s = "openai" -> "OPENAI"
      [] s = "anthropic" -> "ANTHROPIC"
      [] OTHER -> s

\* Array.prototype.includes: v is a JS value, the array holds strings.
includes(array, v) == \E i \in DOMAIN array : Str(array[i]) = v

\* ------------------------------------------------------------ handler

DefaultMaxTokens == 1024
DefaultTemperature == 7

\* What an invocation of the handler has come to.
Returned(text) ==
    [kind |-> "returned", content |-> <<[type |-> "text", text |-> text]>>]
Thrown(error) == [kind |-> "thrown", error |-> error]
Awaiting(call) == [kind |-> "awaiting", call |-> call]

PromptRequiredText == <<"Error: Prompt is required">>
MessagesRequiredText == <<"Error: Messages array is required">>
NoProvidersHelpText ==
    <<"No AI providers configured. Please set one of the following environment variables:\n",
      "- ", "HF_TOKEN", " (for Hugging Face)\n",
      "- ", "OPENAI_API_KEY", " (for OpenAI)\n",
      "- ", "ANTHROPIC_API_KEY", " (for Anthropic)\n",
      "\nThen restart the server.">>
NoProvidersText == <<"No AI providers configured.">>
UnknownToolTextNoName(name) == <<"Unknown tool">>
UnknownToolText(name) == <<"Unknown tool: ", name>>

selectProviderFirstAvailable(provider, availableProviders) == availableProviders[1]

\* provider && availableProviders.includes(provider) ? provider : availableProviders[0]
selectProvider(provider, availableProviders) ==
    IF Truthy(provider) /\ includes(availableProviders, provider)
    THEN provider.v
    ELSE availableProviders[1]

selectModelDefaultOnly(model, selectedProvider) == getDefaultModel(selectedProvider)

\* model || getDefaultModel(selectedProvider)
selectModel(model, selectedProvider) == Or(model, getDefaultModel(selectedProvider))

requestParams(selectedModel, messages, max_tokens, temperature) ==
    [model |-> selectedModel,
     messages |-> messages,
     max_tokens |-> Or(max_tokens, Num(DefaultMaxTokens)),
     temperature |-> Or(temperature, Num(DefaultTemperature))]

\* The call the handler awaits: client.chat.completions.create(requestParams).
Create(c, selectedProvider, params) ==
    [provider |-> selectedProvider, client |-> c[selectedProvider], params |-> params]

\* The generate_text branch up to its await.
GenerateText(args, c) ==
    IF Nullish(args)
    THEN Thrown(TypeError("Cannot destructure property 'prompt' of 'args'"))
    ELSE IF ~Truthy(args.prompt)
    THEN Returned(PromptRequiredText)
    ELSE LET availableProviders == getAvailableProviders(c) IN
        IF Len(availableProviders) = 0
        THEN Returned(NoProvidersHelpText)
        ELSE LET selectedProvider == selectProvider(args.provider, availableProviders)
                 selectedModel == selectModel(args.model, selectedProvider)
             IN Awaiting(Create(c, selectedProvider,
                    requestParams(selectedModel,
                                  Arr(<<[role |-> "user", content |-> args.prompt.v]>>),
                                  args.max_tokens, args.temperature)))

ModelLine(provider, model) ==
    <<"- ", model>>
        \o (IF Str(model) = getDefaultModel(provider) THEN <<" (default)">> ELSE <<>>)
        \o <<"\n">>

RECURSIVE ModelLines(_, _)
ModelLines(provider, models) ==
    IF models = <<>>
    THEN <<>>
    ELSE ModelLine(provider, Head(models)) \o ModelLines(provider, Tail(models))

RECURSIVE ModelList(_)
ModelList(providers) ==
    IF providers = <<>>
    THEN <<>>
    ELSE <<"**", toUpperCase(Head(providers)), ":**\n">>
            \o ModelLines(Head(providers), MODELS[Head(providers)])
            \o <<"\n">>
            \o ModelList(Tail(providers))

\* The list_models branch; it never reads args.
ListModels(c) ==
    LET availableProviders == getAvailableProviders(c) IN
    IF Len(availableProviders) = 0
    THEN Returned(NoProvidersText)
    ELSE Returned(<<"Available AI Models:\n\n">> \o ModelList(availableProviders))

\* The chat_conversation branch up to its await.
ChatConversation(args, c) ==
    IF Nullish(args)
    THEN Thrown(TypeError("Cannot destructure property 'messages' of 'args'"))
    ELSE IF ~Truthy(args.messages) \/ args.messages.t # "array" \/ Len(args.messages.v) = 0
    THEN Returned(MessagesRequiredText)
    ELSE LET availableProviders == getAvailableProviders(c) IN
        IF Len(availableProviders) = 0
        THEN Returned(NoProvidersText)
        ELSE LET selectedProvider == selectProvider(args.provider, availableProviders)
                 selectedModel == selectModel(args.model, selectedProvider)
             IN Awaiting(Create(c, selectedProvider,
                    requestParams(selectedModel, args.messages,
                                  args.max_tokens, args.temperature)))

\* The handler from its entry to its first return, throw or await.
CallTool(name, args, c) ==
    CASE name = "generate_text" -> GenerateText(args, c)
      [] name = "list_models" -> ListModels(c)
      [] name = "chat_conversation" -> ChatConversation(args, c)
      [] OTHER -> Returned(UnknownToolText(name))

FallbackMessage(name) ==
    IF name = "generate_text" THEN "Failed to generate text" ELSE "Failed to process chat"

\* error.response?.status
ResponseStatus(error) ==
    IF Nullish(error.response) THEN Undefined ELSE error.response.status

errorMessageMessageFirst(name, error, selectedProvider) ==
    IF Truthy(error.message)
    THEN <<error.message.v>>
    ELSE IF ResponseStatus(error) = Num(401)
    THEN <<"Authentication failed", " for ", selectedProvider,
           ". Please check your API key.">>
    ELSE IF ResponseStatus(error) = Num(429)
    THEN <<"Rate limit exceeded", " for ", selectedProvider,
           ". Please try again later.">>
    ELSE <<FallbackMessage(name)>>

\* The catch block's errorMessage.
errorMessage(name, error, selectedProvider) ==
    IF ResponseStatus(error) = Num(401)
    THEN <<"Authentication failed", " for ", selectedProvider,
           ". Please check your API key.">>
    ELSE IF ResponseStatus(error) = Num(429)
    THEN <<"Rate limit exceeded", " for ", selectedProvider,
           ". Please try again later.">>
    ELSE IF Truthy(error.message)
    THEN <<error.message.v>>
    ELSE <<FallbackMessage(name)>>

\* The catch block of generate_text and of chat_conversation.
Catch(name, error, selectedProvider) ==
    Returned(<<"Error: ">> \o errorMessage(name, error, selectedProvider))

\* response.choices[0]?.message?.content, once response.choices is an array.
FirstContent(choices) ==
    IF Len(choices.v) = 0 THEN Undefined
    ELSE IF Nullish(choices.v[1]) THEN Undefined
    ELSE IF Nullish(choices.v[1].message) THEN Undefined
    ELSE choices.v[1].message.content

\* The rest of the try block once the awaited call has resolved to response.
Resume(name, response, selectedProvider) ==
    IF Nullish(response.choices)
    THEN Catch(name,
               TypeError("Cannot read properties of undefined (reading '0')"),
               selectedProvider)
    ELSE LET generatedText == Or(FirstContent(response.choices), Str("No response generated"))
         IN Returned(<<generatedText.v>>)

\* ------------------------------------------------------------ inputs

\* args as the handler destructures it: a field the caller left out is undefined.
Args(prompt, messages, provider, model, max_tokens, temperature) ==
    [t |-> "object", prompt |-> prompt, messages |-> messages, provider |-> provider,
     model |-> model, max_tokens |-> max_tokens, temperature |-> temperature]

EmptyArgs == Args(Undefined, Undefined, Undefined, Undefined, Undefined, Undefined)

ToolNames == {"generate_text", "list_models", "chat_conversation"}

\* Tool names a caller may send: the three tools, and names that are none of them.
Names == ToolNames \cup {"summarize", "Generate_Text", ""}

PromptValues == {Undefined, Str(""), Str("Hello")}

ProviderValues ==
    {Undefined, Str("huggingface"), Str("openai"), Str("anthropic"), Str("cohere")}

\* gpt-4o is in the openai catalog only.
ModelValues == {Undefined, Str(""), Str("gpt-4o")}

MaxTokensValues == {Undefined, Num(0), Num(256)}

\* 0.0 is the lower bound of the advertised range; 2.5 is outside it.
TemperatureValues == {Undefined, Num(0), Num(25)}

ChatMessages ==
    {[role |-> "user", content |-> "Hi"], [role |-> "assistant", content |-> "Hello"]}

MessageArrays ==
    UNION {[1..n -> ChatMessages] : n \in 0..MaxMessages}

MessagesValues == {Undefined, Str("Hi")} \cup {Arr(q) : q \in MessageArrays}

GenerateTextArgs ==
    {Undefined, Null}
        \cup {Args(p, Undefined, pr, m, mt, te) :
                p \in PromptValues, pr \in ProviderValues, m \in ModelValues,
                mt \in MaxTokensValues, te \in TemperatureValues}

ChatConversationArgs ==
    {Undefined, Null}
        \cup {Args(Undefined, ms, pr, m, mt, te) :
                ms \in MessagesValues, pr \in ProviderValues, m \in ModelValues,
                mt \in MaxTokensValues, te \in TemperatureValues}

OtherArgs ==
    {Undefined, EmptyArgs,
     Args(Str("Hello"), Undefined, Str("openai"), Undefined, Undefined, Undefined)}

ArgsFor(name) ==
    CASE name = "generate_text" -> GenerateTextArgs
      [] name = "chat_conversation" -> ChatConversationArgs
      [] OTHER -> OtherArgs

\* What a resolved chat.completions.create call may carry: the choices array
\* absent, empty, or holding a first choice whose message or content may be absent.
ContentValues == {Undefined, Null, Str(""), Str("Hi there")}

Choices ==
    {[t |-> "object", message |-> Undefined]}
        \cup {[t |-> "object", message |-> [t |-> "object", content |-> x]] :
                x \in ContentValues}

Responses ==
    {[choices |-> Undefined], [choices |-> Arr(<<>>)]}
        \cup {[choices |-> Arr(<<ch>>)] : ch \in Choices}

\* What a rejected call may carry: an error object with an optional response
\* (holding the HTTP status) and an optional message.
StatusValues == {Num(401), Num(429), Num(500), Undefined}

ErrorResponses ==
    {Undefined} \cup {[t |-> "object", status |-> st] : st \in StatusValues}

ErrorMessages == {Undefined, Str(""), Str("Connection error.")}

Errors == [response : ErrorResponses, message : ErrorMessages]

\* ------------------------------------------------------------ the state machine

VARIABLES
    clients,    \* the module-level clients object
    pc,         \* "idle", "awaiting" (the handler is at its await), "settled"
    request,    \* the tool-call request being handled
    call,       \* the chat.completions.create call this request made, if any
    reply,      \* how that call ended: resolved with a value, rejected with an error
    outcome     \* how the handler ended: a returned ToolResponse, or a thrown error

vars == <<clients, pc, request, call, reply, outcome>>

None == [t |-> "none"]

Init ==
    /\ \E env \in SUBSET EnvVars : clients = BuildClients(env)
    /\ pc = "idle"
    /\ request = None
    /\ call = None
    /\ reply = None
    /\ outcome = None

\* The transport delivers a tool-call request; the handler runs to its first
\* return, throw or await.
HandleToolCall(name, args) ==
    /\ pc = "idle"
    /\ LET r == CallTool(name, args, clients) IN
        /\ request' = [name |-> name, arguments |-> args]
        /\ pc' = IF r.kind = "awaiting" THEN "awaiting" ELSE "settled"
        /\ call' = IF r.kind = "awaiting" THEN r.call ELSE None
        /\ outcome' = IF r.kind = "awaiting" THEN None ELSE r
    /\ reply' = None
    /\ UNCHANGED clients

\* The awaited call resolves; the try block runs to its return.
CallResolves(response) ==
    /\ pc = "awaiting"
    /\ reply' = [kind |-> "resolved", value |-> response]
    /\ outcome' = Resume(request.name, response, call.provider)
    /\ pc' = "settled"
    /\ UNCHANGED <<clients, request, call>>

\* The awaited call rejects; the catch block runs to its return.
CallRejects(error) ==
    /\ pc = "awaiting"
    /\ reply' = [kind |-> "rejected", error |-> error]
    /\ outcome' = Catch(request.name, error, call.provider)
    /\ pc' = "settled"
    /\ UNCHANGED <<clients, request, call>>

\* The handler's promise has settled and the transport has answered the caller.
Done ==
    /\ pc = "settled"
    /\ pc' = "idle"
    /\ request' = None
    /\ call' = None
    /\ reply' = None
    /\ outcome' = None
    /\ UNCHANGED clients

Next ==
    \/ \E name \in Names : \E args \in ArgsFor(name) : HandleToolCall(name, args)
    \/ \E response \in Responses : CallResolves(response)
    \/ \E error \in Errors : CallRejects(error)
    \/ Done

Spec == Init /\ [][Next]_vars

\* ------------------------------------------------------------ vocabulary of the claims

\* The handler has ended for the current request.
Settled == pc = "settled"

\* o is {content: [{type: "text", text}]}.
IsToolResponse(o) ==
    /\ o.kind = "returned"
    /\ Len(o.content) = 1
    /\ o.content[1].type = "text"

ResponseText == outcome.content[1].text

\* The text holds s as one of its fragments.
Mentions(text, s) == \E i \in DOMAIN text : text[i] = s

\* A backend was invoked for the current request.
Invoked == call # None

PriorityOrder == <<"huggingface", "openai", "anthropic">>

Configured == {p \in ProviderIds : clients[p] # Undefined}

\* listAvailable(): the configured backends in priority order.
ListAvailable == SelectSeq(PriorityOrder, LAMBDA p : p \in Configured)

RequestedProvider == request.arguments.provider
RequestedModel == request.arguments.model

\* The arguments pass the tool's input validation.
PassesValidation ==
    CASE request.name = "generate_text" ->
            /\ ~Nullish(request.arguments)
            /\ request.arguments.prompt.t = "string"
            /\ request.arguments.prompt.v # ""
      [] request.name = "chat_conversation" ->
            /\ ~Nullish(request.arguments)
            /\ request.arguments.messages.t = "array"
            /\ request.arguments.messages.v # <<>>
      [] OTHER -> TRUE

\* ------------------------------------------------------------ C1

\* C1: every tool-call request, whatever its arguments payload (an absent one
\* included) and whatever the backend does, ends with the handler returning one
\* ToolResponse {content: [{type: "text", text}]}; no exception escapes.
C1_AlwaysReturnsToolResponse == Settled => IsToolResponse(outcome)

\* ------------------------------------------------------------ C2

\* C2: with zero backends configured, each of the three tools, called with
\* arguments that pass its validation, returns text naming all three credential
\* slots, and invokes no backend.
C2_NoBackendNamesAllSlots ==
    (Settled /\ Configured = {} /\ request.name \in ToolNames /\ PassesValidation)
        => /\ IsToolResponse(outcome)
           /\ \A slot \in EnvVars : Mentions(ResponseText, slot)
           /\ ~Invoked

\* ------------------------------------------------------------ C3

\* The backend C3 expects: the requested one when it is configured, else the first
\* of listAvailable().
ExpectedProvider ==
    IF RequestedProvider.t = "string" /\ RequestedProvider.v \in Configured
    THEN RequestedProvider.v
    ELSE ListAvailable[1]

\* C3: a call that reaches invocation invokes the handle of the requested backend
\* when that backend is configured, wherever it stands in priority order, and
\* otherwise (absent, unconfigured, unknown) the handle of the first backend of
\* listAvailable(); the handle is always one of a configured backend.
C3_ProviderSelection ==
    Invoked
        => /\ ExpectedProvider \in Configured
           /\ call.provider = ExpectedProvider
           /\ call.client = clients[ExpectedProvider]
           /\ call.client # Undefined

\* A configured backend that is last in priority order was requested and invoked.
C3_Witness ==
    /\ Invoked
    /\ Configured = ProviderIds
    /\ RequestedProvider = Str("anthropic")
    /\ call.client = clients["anthropic"]

\* ------------------------------------------------------------ C4

\* C4 as stated: the model passed is the requested model verbatim whenever one is
\* present (any string), and the default of the resolved provider whenever it is
\* omitted.
C4_ModelVerbatimWheneverPresent ==
    Invoked
        => /\ RequestedModel.t = "string" => call.params.model = RequestedModel
           /\ RequestedModel = Undefined
                => call.params.model = getDefaultModel(call.provider)

\* C4 as amended: the model passed is the requested model verbatim whenever it is
\* a non-empty string (with no check against the catalog), and the default of the
\* resolved provider whenever it is omitted or the empty string.
C4_ModelVerbatimWhenNonEmpty ==
    Invoked
        => /\ (RequestedModel.t = "string" /\ RequestedModel.v # "")
                => call.params.model = RequestedModel
           /\ (RequestedModel = Undefined \/ RequestedModel = Str(""))
                => call.params.model = getDefaultModel(call.provider)

\* A model outside the invoked backend's catalog was requested and passed on.
C4_Witness ==
    /\ Invoked
    /\ call.provider = "huggingface"
    /\ RequestedModel = Str("gpt-4o")
    /\ \A i \in DOMAIN MODELS["huggingface"] : MODELS["huggingface"][i] # "gpt-4o"
    /\ call.params.model = Str("gpt-4o")

\* ------------------------------------------------------------ C5

Rejected == Settled /\ reply # None /\ reply.kind = "rejected"

\* The HTTP status the raised error carries, if any.
StatusIs(error, code) ==
    /\ error.response # Undefined
    /\ error.response.status = Num(code)

CarriesMessage(error) == error.message.t = "string" /\ error.message.v # ""

Resolved == Settled /\ reply # None /\ reply.kind = "resolved"

\* The response carries a choices list.
HasChoices(response) == response.choices.t = "array"

\* The response carries choices[0].message.content, a string.
HasContent(response) ==
    /\ HasChoices(response)
    /\ response.choices.v # <<>>
    /\ response.choices.v[1].message # Undefined
    /\ response.choices.v[1].message.content.t = "string"

\* C6: a successful call whose response carries choices[0].message.content = X,
\* for any string X (the empty string included), gives text exactly X; an empty
\* choices list, or a first choice without message or content, gives exactly
\* "No response generated", and the call does not fail.
C6_ContentRoundTrip ==
    (Resolved /\ HasChoices(reply.value))
        => /\ IsToolResponse(outcome)
           /\ IF HasContent(reply.value)
              THEN ResponseText = <<reply.value.choices.v[1].message.content.v>>
              ELSE ResponseText = <<"No response generated">>

\* ------------------------------------------------------------ C7

PromptMissingOrEmpty ==
    \/ Nullish(request.arguments)
    \/ request.arguments.prompt = Undefined
    \/ request.arguments.prompt = Str("")

MessagesAbsentNotSequenceOrEmpty ==
    \/ Nullish(request.arguments)
    \/ request.arguments.messages.t # "array"
    \/ request.arguments.messages.v = <<>>

\* C7: for every set of configured backends, generate_text with a missing or empty
\* prompt returns "Prompt is required", chat_conversation with messages absent,
\* not a sequence or empty returns "Messages array is required", and no backend
\* is invoked.
C7_ValidationFirst ==
    /\ (Settled /\ request.name = "generate_text" /\ PromptMissingOrEmpty)
            => /\ IsToolResponse(outcome)
               /\ ResponseText = <<"Error: Prompt is required">>
               /\ ~Invoked
    /\ (Settled /\ request.name = "chat_conversation" /\ MessagesAbsentNotSequenceOrEmpty)
            => /\ IsToolResponse(outcome)
               /\ ResponseText = <<"Error: Messages array is required">>
               /\ ~Invoked

\* ------------------------------------------------------------ C8

\* The places of the fragment s in the text, in order.
Places(text, s) == SelectSeq([i \in 1..Len(text) |-> i], LAMBDA i : text[i] = s)

\* The places where a backend's section starts: "**" precedes its name.
Headers(text) == Places(text, "**")

\* The model lines ("- " precedes the model) between header place h and the next
\* header, or the end.
LinesOf(text, h) ==
    {j \in 1..(Len(text) - 1) :
        /\ text[j] = "- "
        /\ j > h
        /\ \A i \in (h + 1)..j : text[i] # "**"}

MarkedDefault(text, j) == j + 2 <= Len(text) /\ text[j + 2] = " (default)"

CatalogOf(p) == {MODELS[p][i] : i \in DOMAIN MODELS[p]}

\* C8: with at least one backend configured, list_models lists exactly the
\* configured backends, in listAvailable() order, each with every model of its
\* catalog exactly once and exactly one model marked default, the one that is
\* defaultModelFor of that backend; no backend is invoked.
C8_ListModels ==
    (Settled /\ request.name = "list_models" /\ Configured # {})
        => /\ IsToolResponse(outcome)
           /\ ~Invoked
           /\ LET text == ResponseText
                  H == Headers(text)
              IN /\ Len(H) = Len(ListAvailable)
                 /\ \A k \in DOMAIN H :
                      LET p == ListAvailable[k]
                          lines == LinesOf(text, H[k])
                      IN /\ text[H[k] + 1] = toUpperCase(p)
                         /\ \A j \in lines : text[j + 1] \in CatalogOf(p)
                         /\ \A m \in CatalogOf(p) :
                              Cardinality({j \in lines : text[j + 1] = m}) = 1
                         /\ Cardinality({j \in lines : MarkedDefault(text, j)}) = 1
                         /\ \A j \in lines :
                              MarkedDefault(text, j)
                                  <=> Str(text[j + 1]) = getDefaultModel(p)

\* list_models answered with all three backends configured.
C8_Witness ==
    /\ Settled
    /\ request.name = "list_models"
    /\ Configured = ProviderIds
    /\ Len(Headers(ResponseText)) = 3
    /\ Mentions(ResponseText, "claude-3-opus-20240229")

\* ------------------------------------------------------------ C9

\* C9: a tool name that is none of the three, with any arguments payload and any
\* configured backends, gets a ToolResponse whose text names that tool as unknown,
\* and no backend is invoked.
C9_UnknownTool ==
    (Settled /\ request.name \notin ToolNames)
        => /\ IsToolResponse(outcome)
           /\ ResponseText = <<"Unknown tool: ", request.name>>
           /\ ~Invoked

\* An unknown tool was called with no arguments payload while a backend is
\* configured.
C9_Witness ==
    /\ Settled
    /\ request.name = "summarize"
    /\ request.arguments = Undefined
    /\ Configured # {}
    /\ Mentions(ResponseText, "summarize")

\* ------------------------------------------------------------ C10

\* C10: a call that reaches invocation passes the caller's maxTokens and
\* temperature whenever the caller supplies them, for every supplied value
\* (temperature 0.0 and out-of-range values included); the defaults 1024 and 0.7
\* are used only when the field is omitted.
C10_ParametersPassThrough ==
    Invoked
        => /\ request.arguments.max_tokens.t = "number"
                => call.params.max_tokens = request.arguments.max_tokens
           /\ request.arguments.temperature.t = "number"
                => call.params.temperature = request.arguments.temperature
           /\ request.arguments.max_tokens = Undefined
                => call.params.max_tokens = Num(1024)
           /\ request.arguments.temperature = Undefined
                => call.params.temperature = Num(7)

\* ------------------------------------------------------------ beside the refuted claims

\* What the handler does guarantee where C1, C2, C6, C7 and C10 fail. These are
\* not the claims; they bound how far each failure reaches.

\* Beside C1 and C7: a request that carries an arguments object always ends in a
\* ToolResponse, and a request that fails validation invokes no backend.
ReturnsToolResponseGivenArguments ==
    (Settled /\ ~Nullish(request.arguments))
        => /\ IsToolResponse(outcome)
           /\ (request.name = "generate_text" /\ PromptMissingOrEmpty)
                => (ResponseText = <<"Error: Prompt is required">> /\ ~Invoked)
           /\ (request.name = "chat_conversation" /\ MessagesAbsentNotSequenceOrEmpty)
                => (ResponseText = <<"Error: Messages array is required">> /\ ~Invoked)

\* Beside C2: with zero backends configured no tool invokes a backend; only
\* generate_text names the credential slots, the other two name none.
NoBackendNoInvocation ==
    (pc # "idle" /\ Configured = {})
        => /\ ~Invoked
           /\ (Settled /\ PassesValidation /\ request.name = "generate_text")
                => \A slot \in EnvVars : Mentions(ResponseText, slot)
           /\ (Settled /\ request.name \in {"list_models", "chat_conversation"}
                    /\ PassesValidation)
                => ResponseText = <<"No AI providers configured.">>

\* Beside C6: non-empty content comes back exactly; empty content is replaced by
\* the placeholder.
NonEmptyContentRoundTrip ==
    (Resolved /\ HasContent(reply.value))
        => ResponseText =
            IF reply.value.choices.v[1].message.content.v # ""
            THEN <<reply.value.choices.v[1].message.content.v>>
            ELSE <<"No response generated">>

\* Beside C10: a supplied value other than 0 is passed as given; 0 is replaced by
\* the default.
NonZeroParametersPassThrough ==
    Invoked
        => /\ call.params.max_tokens =
                IF request.arguments.max_tokens \in {Undefined, Num(0)}
                THEN Num(1024)
                ELSE request.arguments.max_tokens
           /\ call.params.temperature =
                IF request.arguments.temperature \in {Undefined, Num(0)}
                THEN Num(7)
                ELSE request.arguments.temperature

====
